---- MODULE Spec2Model ----
(***************************************************************************)
(* Composition engine of the "master" framework:                           *)
(*   - the dependency resolver of master/core/modules.py (Configuration,   *)
(*     Node, Graph), which orders the discovered modules;                  *)
(*   - the class registry and compiler of master/core/registry.py          *)
(*     (ModuleClassRegistry, ClassManager, BaseClass).                     *)
(* SpecGraph explores the resolver over bounded sets of module             *)
(* descriptors and enumeration orders; SpecRegistry explores imports,      *)
(* registrations and compile passes over a fixed set of declared classes.  *)
(***************************************************************************)
EXTENDS Integers, Sequences, FiniteSets, TLC

VARIABLES
    decl,       \* graph: raw content of each configuration.json (depends, sequence)
    run,        \* graph: outcome of the latest load_configurations()
    classes,    \* registry: the class objects created so far (id -> record)
    metaCache,  \* registry: lazy_classproperty._register for __meta__
    registry,   \* registry: ClassManager._registry (meta -> ModuleClassRegistry)
    metaOrder,  \* registry: insertion order of the keys of ClassManager._registry
    imported,   \* registry: python modules / addons executed so far
    extraRegs,  \* registry: explicit ClassManager.register_class calls made so far
    passes,     \* registry: the ClassManager instances built so far, oldest first
    dedup,      \* registry: the last candidate list handed to the deduplication
                \* functions, and what each of them returned
    env,          \* application: what the disk and the database hold right now
    paths,        \* application: Application.paths (names found by modules_paths)
    installed,    \* application: Application.installed
    controller,   \* application: Application._controller
    exports,      \* application: StaticFilesMiddleware.exports
    reload_event, \* application: Application.reload_event is set
    mainPc,       \* application: position of the thread running start_server
    sysModules,   \* application: addon modules executed so far, in order
    lastGood,     \* application: state published by the last completed reload
    reloads,      \* application: number of times the gate was raised
    req,          \* application: the request threads (Application.__call__)
    loading,        \* server: Server.loading.value
    requests_count, \* server: Server.requests_count value
    calls           \* server: the request threads (Server.__call__)

graphVars == <<decl, run>>
regVars == <<classes, metaCache, registry, metaOrder, imported, extraRegs, passes, dedup>>
appVars == <<env, paths, installed, controller, exports, reload_event, mainPc,
             sysModules, lastGood, reloads, req>>
srvVars == <<loading, requests_count, calls>>
vars == <<decl, run, classes, metaCache, registry, metaOrder, imported, extraRegs, passes,
          dedup,
          env, paths, installed, controller, exports, reload_event, mainPc,
          sysModules, lastGood, reloads, req, loading, requests_count, calls>>

----------------------------------------------------------------------------
(* Generic helpers on sequences.                                           *)

Range(s) == {s[i] : i \in DOMAIN s}

InSeq(x, s) == \E i \in DOMAIN s : s[i] = x

\* list.remove(x): drops the first occurrence of x
RemoveFirst(s, x) ==
    IF ~InSeq(x, s) THEN s
    ELSE LET k == CHOOSE i \in DOMAIN s : s[i] = x /\ \A j \in 1..(i - 1) : s[j] # x
         IN  SubSeq(s, 1, k - 1) \o SubSeq(s, k + 1, Len(s))

\* list.insert(0, x)
InsertFront(s, x) == <<x>> \o s

IndexOf(x, s) == CHOOSE i \in DOMAIN s : s[i] = x /\ \A j \in 1..(i - 1) : s[j] # x

NoDuplicates(s) == \A i, j \in DOMAIN s : i # j => s[i] # s[j]

Reverse(s) == [i \in 1..Len(s) |-> s[Len(s) + 1 - i]]

SeqsUpTo(S, n) == UNION {[1..k -> S] : k \in 0..n}

Perms(S) == {p \in [1..Cardinality(S) -> S] : \A i, j \in DOMAIN p : i # j => p[i] # p[j]}

----------------------------------------------------------------------------
(* The dependency resolver (master/core/modules.py).                       *)

base_addon == "base"

\* the modules found on disk, and a name that no module carries
Discovered == {"base", "a", "b", "c"}
Ghost == "ghost"
\* the names a configuration.json may list: every module but the leaf "c", and Ghost
DepNames == {"base", "a", "b", Ghost}

\* str comparison of module names, as used by the last component of the sort key
NameOrder == <<"a", "b", "base", "c", "crm", "ghost", "hr">>
NameRank == [n \in Range(NameOrder) |-> IndexOf(n, NameOrder)]
NameLess(x, y) == NameRank[x] < NameRank[y]

MaxDeps == 2        \* longest declared dependency list
MaxEdges == 3       \* declared dependency entries over all non-base modules
DefaultSequence == 16
InitialFactor == 10

\* declared "sequence" values: 0 (not positive, replaced by the default) or 10
DeclaredSequences == {0, 10}

\* Configuration.__init__: the dependency list and the sequence of a descriptor
ConfigurationDepends(name, depends) ==
    LET withBase == IF name # base_addon /\ ~InSeq(base_addon, depends)
                    THEN InsertFront(depends, base_addon)
                    ELSE depends
    IN  IF name = base_addon THEN <<>> ELSE withBase

ConfigurationSequence(sequence) ==
    IF sequence <= 0 THEN DefaultSequence ELSE sequence

\* Node.__init__ for every configuration (Graph.__init__ / Graph.build_node),
\* with the Configuration objects of Graph._configurations
NewGraph(d) ==
    [factor    |-> [n \in Discovered |-> InitialFactor],
     sequence  |-> [n \in Discovered |-> ConfigurationSequence(d[n].sequence)],
     children  |-> [n \in Discovered |-> <<>>],
     parents   |-> [n \in Discovered |-> <<>>],
     depends   |-> [n \in Discovered |-> ConfigurationDepends(n, d[n].depends)],
     configured |-> [n \in Discovered |-> ConfigurationDepends(n, d[n].depends)],
     incorrect |-> <<>>]

\* Node.add_child: parent.add_child(child)
AddChild(g, parent, child) ==
    LET g1 == [g  EXCEPT !.children[parent] = Append(@, child)]
        g2 == [g1 EXCEPT !.parents[child] = Append(@, parent)]
    IN  [g2 EXCEPT !.factor[child] = @ + g2.factor[parent]]

\* Graph.build_links, inner loop: the list iterator of configuration.depends
\* is at position i while the body may remove an entry from that same list
RECURSIVE LinkDepends(_, _, _)
LinkDepends(g, name, i) ==
    IF i > Len(g.depends[name]) THEN g
    ELSE LET dependency == g.depends[name][i]
         IN  IF dependency \notin Discovered
             THEN LinkDepends([g EXCEPT !.incorrect = Append(@, dependency),
                                        !.depends[name] = RemoveFirst(@, dependency)],
                              name, i + 1)
             ELSE LinkDepends(AddChild(g, dependency, name), name, i + 1)

\* Graph.build_links, outer loop over the configurations in enumeration order
RECURSIVE LinkAll(_, _, _)
LinkAll(g, enum, k) ==
    IF k > Len(enum) THEN g
    ELSE LinkAll(LinkDepends(g, enum[k], 1), enum, k + 1)

\* Graph._collect_all_nodes: the nodes reachable from a node through children
RECURSIVE Reach(_, _, _)
Reach(g, stack, visited) ==
    IF stack = {} THEN visited
    ELSE LET current == CHOOSE n \in stack : TRUE
         IN  IF current \in visited
             THEN Reach(g, stack \ {current}, visited)
             ELSE Reach(g, (stack \ {current}) \cup Range(g.children[current]),
                        visited \cup {current})

CollectAllNodes(g, node) == Reach(g, {node}, {})

\* Graph.build_links, second loop: a non-base node found among the descendants
\* of one of its children
CircularDependency(g) ==
    \E node \in Discovered :
        /\ node # base_addon
        /\ \E dependency \in Range(g.children[node]) :
              node \in CollectAllNodes(g, dependency)

\* a sort key that puts the sequence before the factor
SortKeyLess_SequenceFirst(g, x, y) ==
    \/ g.sequence[x] < g.sequence[y]
    \/ /\ g.sequence[x] = g.sequence[y]
       /\ \/ g.factor[x] < g.factor[y]
          \/ /\ g.factor[x] = g.factor[y]
             /\ \/ Len(g.parents[x]) < Len(g.parents[y])
                \/ /\ Len(g.parents[x]) = Len(g.parents[y])
                   /\ NameLess(x, y)

\* Graph._sort_all_nodes: (factor, sequence, len(parents), name), compared as tuples
SortKeyLess(g, x, y) ==
    \/ g.factor[x] < g.factor[y]
    \/ /\ g.factor[x] = g.factor[y]
       /\ \/ g.sequence[x] < g.sequence[y]
          \/ /\ g.sequence[x] = g.sequence[y]
             /\ \/ Len(g.parents[x]) < Len(g.parents[y])
                \/ /\ Len(g.parents[x]) = Len(g.parents[y])
                   /\ NameLess(x, y)

\* sorted(nodes, key=_sort_all_nodes)
RECURSIVE SortNodes(_, _)
SortNodes(g, S) ==
    IF S = {} THEN <<>>
    ELSE LET first == CHOOSE x \in S : \A y \in S \ {x} : SortKeyLess(g, x, y)
         IN  <<first>> \o SortNodes(g, S \ {first})

\* Graph.order_configurations
OrderConfigurations(g) ==
    LET ordered_names == SortNodes(g, CollectAllNodes(g, base_addon))
        listed == Range(ordered_names)
    IN  [status    |-> "ok",
         enum      |-> <<>>,
         order     |-> ordered_names,
         depends   |-> [n \in Discovered |->
                          IF n \in listed
                          THEN SelectSeq(ordered_names, LAMBDA m : InSeq(m, g.depends[n]))
                          ELSE g.depends[n]],
         reversed_depends |-> [n \in Discovered |->
                          IF n \in listed THEN g.children[n] ELSE <<>>],
         incorrect |-> g.incorrect,
         configured |-> g.configured,
         factor    |-> g.factor,
         parents   |-> g.parents,
         children  |-> g.children]

\* Graph() followed by graph.order_configurations(): the ValueError of
\* build_links leaves Graph.__init__ before order_configurations is reached
BuildResult(d, enum) ==
    LET g == LinkAll(NewGraph(d), enum, 1)
    IN  IF CircularDependency(g)
        THEN [status    |-> "circular",
              enum      |-> <<>>,
              order     |-> <<>>,
              depends   |-> g.depends,
              reversed_depends |-> [n \in Discovered |-> <<>>],
              incorrect |-> g.incorrect,
              configured |-> g.configured,
              factor    |-> g.factor,
              parents   |-> g.parents,
              children  |-> g.children]
        ELSE OrderConfigurations(g)

NoRun ==
    [status |-> "none", order |-> <<>>,
     depends |-> [n \in Discovered |-> <<>>],
     reversed_depends |-> [n \in Discovered |-> <<>>],
     incorrect |-> <<>>,
     configured |-> [n \in Discovered |-> <<>>],
     factor |-> [n \in Discovered |-> 0],
     parents |-> [n \in Discovered |-> <<>>],
     children |-> [n \in Discovered |-> <<>>],
     enum |-> <<>>]

\* the declared dependency lists: at most MaxDeps entries per module and
\* MaxEdges entries over the non-base modules
DeclaredLists == SeqsUpTo(DepNames, MaxDeps)
BaseDeclaredLists == {<<>>, <<Ghost, "a">>}
\* the modules whose configuration.json carries a "sequence"
Weighted == {"b", "c"}
NonBase == Discovered \ {base_addon}

RECURSIVE SumLen(_, _)
SumLen(f, S) ==
    IF S = {} THEN 0
    ELSE LET n == CHOOSE x \in S : TRUE IN Len(f[n]) + SumLen(f, S \ {n})

\* the state before the first load: the configuration.json files on disk
GraphInit ==
    /\ \E deps \in [NonBase -> DeclaredLists] :
       \E seqs \in [Weighted -> DeclaredSequences] :
       \E baseDeps \in BaseDeclaredLists :
          /\ SumLen(deps, NonBase) <= MaxEdges
          /\ decl = [n \in Discovered |->
                       IF n = base_addon
                       THEN [depends |-> baseDeps, sequence |-> 0]
                       ELSE [depends |-> deps[n],
                             sequence |-> IF n \in Weighted THEN seqs[n] ELSE 0]]
    /\ run = NoRun

\* load_configurations: Graph() enumerates the module directories in the order
\* the file system yields them, then orders the configurations
LoadConfigurations(enum) ==
    /\ run.status = "none"
    /\ run' = [BuildResult(decl, enum) EXCEPT !.enum = enum]
    /\ UNCHANGED decl

\* the orders in which iterdir() may yield the module directories
EnumerationOrders == Perms(Discovered)

\* no list has been deduplicated yet
NoDedup == [class_list |-> <<>>, filter_unique_classes |-> <<>>,
            filter_class |-> <<>>, deduplicate_classes |-> <<>>]

RegFrozen ==
    /\ classes = <<>>
    /\ metaCache = <<>>
    /\ registry = <<>>
    /\ metaOrder = <<>>
    /\ imported = {}
    /\ extraRegs = 0
    /\ passes = <<>>
    /\ dedup = NoDedup

----------------------------------------------------------------------------
(* The class registry and compiler (master/core/registry.py).              *)

\* the class object BaseClass itself; "object" is left out of every MRO
BaseClass == 0

\* the configurations the resolver hands over for the addons base, crm and
\* hr (hr depends on crm): the load order and the final dependency lists
LoadOrder == <<"base", "crm", "hr">>
Addons == Range(LoadOrder)
AddonDepends == [n \in Addons |->
                    IF n = "hr" THEN <<"base", "crm">>
                    ELSE IF n = "crm" THEN <<"base">> ELSE <<>>]

CoreSvc == <<"master", "core", "svc">>
CoreDb == <<"master", "core", "db">>
RegistryModule == <<"master", "core", "registry">>
AddonPackage(n) == <<"master", "addons", n>>

\* the class statements of the program, in source order within each python module
Templates ==
    << [pymod |-> CoreSvc,             name |-> "UserManager",   bases |-> <<BaseClass>>],
       [pymod |-> CoreDb,              name |-> "UserManager",   bases |-> <<BaseClass>>],
       [pymod |-> AddonPackage("crm"), name |-> "UserManager",   bases |-> <<1>>],
       [pymod |-> AddonPackage("crm"), name |-> "DbUserManager", bases |-> <<2>>],
       [pymod |-> AddonPackage("hr"),  name |-> "Audited",       bases |-> <<3>>],
       [pymod |-> AddonPackage("hr"),  name |-> "HrUserManager", bases |-> <<1>>],
       [pymod |-> AddonPackage("hr"),  name |-> "HrDbManager",   bases |-> <<2>>],
       [pymod |-> CoreSvc,             name |-> "Session",       bases |-> <<BaseClass>>],
       [pymod |-> AddonPackage("crm"), name |-> "SessionA",      bases |-> <<8>>],
       [pymod |-> AddonPackage("crm"), name |-> "SessionB",      bases |-> <<8>>],
       [pymod |-> AddonPackage("crm"), name |-> "SessionAB",     bases |-> <<9, 10>>],
       [pymod |-> AddonPackage("hr"),  name |-> "SessionBA",     bases |-> <<10, 9>> ],
       [pymod |-> AddonPackage("hr"),  name |-> "Badge",         bases |-> <<BaseClass>>] >>

TemplateIds == DOMAIN Templates
CoreModules == {CoreSvc, CoreDb}

MaxPasses == 2      \* ClassManager instances built in one behaviour
MaxExtraRegs == 1   \* explicit ClassManager.register_class calls

\* the empty dict
EmptyMap == [k \in {} |-> 0]

\* the state the registry code reads and writes
Bundle == [classes |-> classes, metaCache |-> metaCache,
           registry |-> registry, metaOrder |-> metaOrder]

ClassMro(cls, c) == IF c = BaseClass THEN <<BaseClass>> ELSE cls[c].mro

\* issubclass(sub, sup)
IsSubclass(cls, sub, sup) == InSeq(sup, ClassMro(cls, sub))

\* the merge step of the C3 linearisation done by type.__new__
MroConflict == <<-1>>

RECURSIVE C3Merge(_)
C3Merge(lists) ==
    LET rest == SelectSeq(lists, LAMBDA l : l # <<>>)
    IN  IF rest = <<>> THEN <<>>
        ELSE LET good == {i \in DOMAIN rest :
                             \A j \in DOMAIN rest : ~InSeq(Head(rest[i]), Tail(rest[j]))}
             IN  IF good = {} THEN MroConflict
                 ELSE LET i == CHOOSE k \in good : \A m \in good : k <= m
                          h == Head(rest[i])
                          tail == C3Merge([j \in DOMAIN rest |->
                                             SelectSeq(rest[j], LAMBDA x : x # h)])
                      IN  IF tail = MroConflict THEN MroConflict ELSE <<h>> \o tail

ComputeMro(cls, id, bases) ==
    LET merged == C3Merge([i \in 1..Len(bases) |-> ClassMro(cls, bases[i])] \o <<bases>>)
    IN  IF merged = MroConflict THEN MroConflict ELSE <<id>> \o merged

\* f'{cls.__module__}.{cls.__qualname__}'
QualifiedName(cls, c) == cls[c].pymod \o <<cls[c].name>>

\* first_mro_before(cls, BaseClass)
NoMeta == <<>>
FirstMroBefore(cls, c) ==
    LET mro == cls[c].mro
    IN  IF ~InSeq(BaseClass, mro) THEN NoMeta
        ELSE LET index == IndexOf(BaseClass, mro) - 1
             IN  IF index < 1 THEN NoMeta ELSE QualifiedName(cls, mro[index])

\* lazy_classproperty.__get__ for BaseClass.__meta__: cached per qualified name
MetaOf(st, c) ==
    LET key == QualifiedName(st.classes, c)
    IN  IF key \in DOMAIN st.metaCache THEN st.metaCache[key]
        ELSE FirstMroBefore(st.classes, c)

CacheMeta(st, c) ==
    LET key == QualifiedName(st.classes, c)
    IN  IF key \in DOMAIN st.metaCache THEN st
        ELSE [st EXCEPT !.metaCache = @ @@ (key :> FirstMroBefore(st.classes, c))]

\* ModuleClassRegistry._extract_module_name
ExtractModuleName(pymod) ==
    IF Len(pymod) >= 3 /\ pymod[1] = "master" /\ pymod[2] = "addons"
    THEN pymod[3] ELSE "_"

\* ModuleClassRegistry()
NewModuleClassRegistry ==
    [module_classes |-> [n \in Addons |-> <<>>], core_classes |-> <<>>]

\* a bucket that keeps only the class registered last
BucketRegister_Overwrite(entry, cls, c) ==
    LET module_name == ExtractModuleName(cls[c].pymod)
    IN  IF module_name = "_"
        THEN [entry EXCEPT !.core_classes = <<c>>]
        ELSE [entry EXCEPT !.module_classes[module_name] = <<c>>]

\* ModuleClassRegistry.register_class
BucketRegister(entry, cls, c) ==
    LET module_name == ExtractModuleName(cls[c].pymod)
    IN  IF module_name = "_"
        THEN [entry EXCEPT !.core_classes = InsertFront(@, c)]
        ELSE [entry EXCEPT !.module_classes[module_name] = InsertFront(@, c)]

\* ClassManager.register_class
RegisterClass(st, c) ==
    LET st1 == CacheMeta(st, c)
        meta == MetaOf(st1, c)
    IN  IF meta = NoMeta THEN st1
        ELSE LET st2 == IF meta \in DOMAIN st1.registry THEN st1
                        ELSE [st1 EXCEPT !.registry = @ @@ (meta :> NewModuleClassRegistry),
                                         !.metaOrder = Append(@, meta)]
             IN  [st2 EXCEPT !.registry[meta] = BucketRegister(@, st2.classes, c)]

\* a class statement or a type(name, bases, {}) call: type.__new__ followed by
\* BaseClass.__init_subclass__
DefineClass(st, id, pymod, name, bases) ==
    LET mro == ComputeMro(st.classes, id, bases)
    IN  IF ~NoDuplicates(bases) \/ mro = MroConflict
        THEN [ok |-> FALSE, st |-> st]
        ELSE LET made == [pymod |-> pymod, name |-> name, bases |-> bases, mro |-> mro]
             IN  [ok |-> TRUE,
                  st |-> RegisterClass([st EXCEPT !.classes = @ @@ (id :> made)], id)]

\* executing the class statements ts (template ids) of one python module in order
RECURSIVE DefineTemplates(_, _)
DefineTemplates(st, ts) ==
    IF ts = <<>> THEN st
    ELSE LET t == Head(ts)
         IN  DefineTemplates(
                 DefineClass(st, t, Templates[t].pymod, Templates[t].name,
                             Templates[t].bases).st,
                 Tail(ts))

TemplatesOf(pymod) ==
    SelectSeq([i \in TemplateIds |-> i], LAMBDA t : Templates[t].pymod = pymod)


\* the python modules of master.core whose classes the addon name subclasses
NeededCore(name) ==
    LET ts == TemplatesOf(AddonPackage(name))
        PyModOf(b) == IF b = BaseClass THEN RegistryModule ELSE Templates[b].pymod
        needs == [i \in DOMAIN ts |-> PyModOf(Templates[ts[i]].bases[1])]
    IN  SelectSeq(needs, LAMBDA pm : pm \in CoreModules)

\* python executes a module once: sys.modules / hasattr(addons, name)
ExecModule(w, pymod) ==
    IF pymod \in w.imported THEN w
    ELSE [st |-> DefineTemplates(w.st, TemplatesOf(pymod)),
          imported |-> w.imported \cup {pymod}]

RECURSIVE ExecModules(_, _)
ExecModules(w, pymods) ==
    IF pymods = <<>> THEN w
    ELSE ExecModules(ExecModule(w, Head(pymods)), Tail(pymods))

\* import_module(name): the dependencies first, then the addon's own code,
\* whose import statements load the core modules it subclasses
RECURSIVE ImportAddon(_, _)
RECURSIVE ImportAddons(_, _)
ImportAddon(w, name) ==
    IF AddonPackage(name) \in w.imported THEN w
    ELSE LET deps == ImportAddons(w, AddonDepends[name])
             core == ExecModules(deps, NeededCore(name))
         IN  ExecModule(core, AddonPackage(name))

ImportAddons(w, names) ==
    IF names = <<>> THEN w
    ELSE ImportAddons(ImportAddon(w, Head(names)), Tail(names))

\* ClassManager.filter_unique_classes: the candidate list (all_classes)
AllClasses(modules, entry) ==
    LET RECURSIVE Gather(_)
        Gather(k) == IF k > Len(modules) THEN <<>>
                     ELSE entry.module_classes[modules[k]] \o Gather(k + 1)
    IN  Gather(1) \o entry.core_classes

\* a filter that keeps the classes that have no ancestor in the list
FilterUniqueClasses_KeepAncestors(cls, modules, entry) ==
    LET all_classes == AllClasses(modules, entry)
    IN  SelectSeq(all_classes,
                  LAMBDA c : ~\E i \in DOMAIN all_classes :
                                 all_classes[i] # c /\ IsSubclass(cls, c, all_classes[i]))

\* ClassManager.filter_unique_classes: the returned list (result)
FilterUniqueClasses(cls, modules, entry) ==
    LET all_classes == AllClasses(modules, entry)
    IN  SelectSeq(all_classes,
                  LAMBDA c : ~\E i \in DOMAIN all_classes :
                                 all_classes[i] # c /\ IsSubclass(cls, all_classes[i], c))

\* filter_class (core/tools): a list of one class is returned as it is, a
\* longer one is walked from its end
FilterClass(cls, class_list) ==
    IF Len(class_list) = 1 THEN class_list
    ELSE IF Len(class_list) > 1
    THEN SelectSeq(Reverse(class_list),
                   LAMBDA c : ~\E i \in DOMAIN class_list :
                                  /\ class_list[i] # c
                                  /\ InSeq(c, Tail(ClassMro(cls, class_list[i]))))
    ELSE <<>>

\* Meta.deduplicate_classes (core/api.py)
DeduplicateClasses(cls, classes_list) ==
    SelectSeq(Reverse(classes_list),
              LAMBDA klass : ~\E i \in DOMAIN classes_list :
                                 /\ classes_list[i] # klass
                                 /\ IsSubclass(cls, classes_list[i], klass))

\* the id of the next class object made by type(...)
NextClassId(cls) ==
    LET ids == DOMAIN cls \cup TemplateIds
    IN  (CHOOSE m \in ids : \A k \in ids : k <= m) + 1

\* meta.split(".")[-1]
LastSegment(meta) == meta[Len(meta)]

\* ClassManager.create_merged_class
CreateMergedClass(st, new_class_name, base_classes) ==
    DefineClass(st, NextClassId(st.classes), RegistryModule, new_class_name, base_classes)

\* "not registry" in ClassManager.__init__: ModuleClassRegistry defines neither
\* __bool__ nor __len__, so its instances are true whatever they hold
NotRegistry(entry) == FALSE

\* ClassManager.__init__: the loop over ClassManager._registry, one meta per
\* step; w.st is the registry state, w.out the _classes dict being filled
RECURSIVE CompileMetas(_, _, _)
CompileMetas(w, metas, modules) ==
    IF metas = <<>> THEN w
    ELSE LET meta == Head(metas)
             entry == w.st.registry[meta]
             all_classes == AllClasses(modules, entry)
             filtered == FilterUniqueClasses(w.st.classes, modules, entry)
             seen == [w EXCEPT !.candidates = @ @@ (meta :> all_classes),
                               !.survivors = @ @@ (meta :> filtered)]
         IN  IF NotRegistry(entry)
             THEN CompileMetas([seen EXCEPT !.warnings = Append(@, meta)],
                               Tail(metas), modules)
             ELSE IF filtered = <<>>
             THEN CompileMetas(seen, Tail(metas), modules)
             ELSE IF Len(filtered) = 1
             THEN CompileMetas([seen EXCEPT !.out = @ @@ (meta :> filtered[1])],
                               Tail(metas), modules)
             ELSE LET made == CreateMergedClass(w.st, "_Merged" \o LastSegment(meta),
                                                filtered)
                  IN  IF made.ok
                      THEN CompileMetas([seen EXCEPT
                                           !.st = made.st,
                                           !.out = @ @@ (meta :> NextClassId(w.st.classes))],
                                        Tail(metas), modules)
                      ELSE CompileMetas(seen, Tail(metas), modules)

\* ClassManager(modules)
ClassManagerInit(st, modules) ==
    CompileMetas([st |-> st, out |-> EmptyMap, candidates |-> EmptyMap,
                  survivors |-> EmptyMap, warnings |-> <<>>],
                 st.metaOrder, modules)

\* reorder_module_names: the installed names in load order
ReorderModuleNames(names) == SelectSeq(LoadOrder, LAMBDA n : n \in names)

InstalledLists == {ReorderModuleNames(S \cup {"base"}) : S \in SUBSET Addons}

\* number of imports and explicit registrations so far
Epoch == Cardinality(imported) + extraRegs

RegInit ==
    /\ classes = EmptyMap
    /\ metaCache = EmptyMap
    /\ registry = EmptyMap
    /\ metaOrder = <<>>
    /\ imported = {}
    /\ extraRegs = 0
    /\ passes = <<>>
    /\ dedup = NoDedup

SetBundle(st) ==
    /\ classes' = st.classes
    /\ metaCache' = st.metaCache
    /\ registry' = st.registry
    /\ metaOrder' = st.metaOrder

\* "import master.core.<x>" executed for the first time
ImportCore ==
    \E pymod \in CoreModules :
        /\ pymod \notin imported
        /\ LET w == ExecModule([st |-> Bundle, imported |-> imported], pymod)
           IN  SetBundle(w.st) /\ imported' = w.imported
        /\ UNCHANGED <<extraRegs, passes, dedup, decl, run, appVars, srvVars>>

\* import_module(name), also for an addon that is imported already
ImportModule ==
    \E name \in Addons :
        /\ LET w == ImportAddon([st |-> Bundle, imported |-> imported], name)
           IN  SetBundle(w.st) /\ imported' = w.imported
        /\ UNCHANGED <<extraRegs, passes, dedup, decl, run, appVars, srvVars>>

\* ClassManager.register_class(cls) called on a class that exists already
RegisterAgain ==
    \E c \in DOMAIN classes :
        /\ extraRegs < MaxExtraRegs
        /\ SetBundle(RegisterClass(Bundle, c))
        /\ extraRegs' = extraRegs + 1
        /\ UNCHANGED <<imported, passes, dedup, decl, run, appVars, srvVars>>

\* the three deduplication functions applied to the candidate list of a
\* registered meta for an installed list
Deduplicate ==
    \E modules \in InstalledLists : \E meta \in DOMAIN registry :
        LET all_classes == AllClasses(modules, registry[meta])
        IN  /\ dedup' = [class_list |-> all_classes,
                         filter_unique_classes |->
                             FilterUniqueClasses(classes, modules, registry[meta]),
                         filter_class |-> FilterClass(classes, all_classes),
                         deduplicate_classes |-> DeduplicateClasses(classes, all_classes)]
            /\ UNCHANGED <<classes, metaCache, registry, metaOrder, imported, extraRegs,
                           passes, decl, run, appVars, srvVars>>

\* Server._start: classes = ClassManager(modules)
Compile ==
    \E modules \in InstalledLists :
        /\ Len(passes) < MaxPasses
        /\ LET w == ClassManagerInit(Bundle, modules)
           IN  /\ SetBundle(w.st)
               /\ passes' = Append(passes, [installed  |-> modules,
                                            compiled   |-> w.out,
                                            candidates |-> w.candidates,
                                            survivors  |-> w.survivors,
                                            warnings   |-> w.warnings,
                                            epoch      |-> Epoch])
        /\ UNCHANGED <<imported, extraRegs, dedup, decl, run, appVars, srvVars>>

GraphFrozen ==
    /\ decl = [n \in Discovered |-> [depends |-> <<>>, sequence |-> 0]]
    /\ run = NoRun

----------------------------------------------------------------------------
(* The served application (core/service): start_server runs the reload in
   the main thread and hands every accepted request to a thread of its own
   (make_server(..., threaded=True)). *)

MaxReloads == 2     \* times the gate is raised in one behaviour
MaxThreads == 1     \* request threads in one behaviour

Threads == 1..MaxThreads

\* what the reload reads from outside: the rows select_addons returns (the
\* query has no ORDER BY), the addon directories modules_paths finds, whether
\* the directories can be read, and the state of the code of addon hr
Env(db, found, hr, disk) == [db |-> db, found |-> found, hr |-> hr, disk |-> disk]

EnvChoices ==
    { Env(<<"base">>, {"base"}, "ok", "ok"),
      Env(<<"base", "crm">>, {"base", "crm"}, "ok", "ok"),
      Env(<<"crm", "base">>, {"base", "crm"}, "ok", "ok"),
      Env(<<"base", "crm", "hr">>, {"base", "crm"}, "ok", "ok"),
      Env(<<"base", "crm", "hr">>, {"base", "crm", "hr"}, "ok", "ok"),
      Env(<<"base", "crm", "hr">>, {"base", "crm", "hr"}, "broken", "ok"),
      Env(<<"base", "crm", "hr">>, {"base", "crm", "hr"}, "conflict", "ok"),
      Env(<<"base", "crm">>, {"base", "crm"}, "ok", "unreadable") }

\* Controller(): no application, no endpoints
NewController == [installed |-> <<>>]

\* Controller.__init__ with application=self: the endpoints are compiled from
\* application.installed
CompiledController(app_installed) == [installed |-> app_installed]

NoGood == [done |-> FALSE, paths |-> {}, installed |-> <<>>,
           controller |-> NewController, exports |-> {}]

IdleRequest == [pc |-> "idle", kind |-> "none", error |-> FALSE,
                seenController |-> NewController, seenInstalled |-> <<>>,
                response |-> "none"]

\* Application.__init__ and the class attributes reload_event, stop_event
AppInit ==
    /\ env \in EnvChoices
    /\ paths = {}
    /\ installed = <<>>
    /\ controller = NewController
    /\ exports = {}
    /\ reload_event = FALSE
    /\ mainPc = "boot"
    /\ sysModules = <<>>
    /\ lastGood = NoGood
    /\ reloads = 0
    /\ req = [t \in Threads |-> IdleRequest]

AppFrozen ==
    /\ env = Env(<<"base">>, {"base"}, "ok", "ok")
    /\ paths = {}
    /\ installed = <<>>
    /\ controller = NewController
    /\ exports = {}
    /\ reload_event = FALSE
    /\ mainPc = "boot"
    /\ sysModules = <<>>
    /\ lastGood = NoGood
    /\ reloads = 0
    /\ req = [t \in Threads |-> IdleRequest]

\* the addons whose classes the source of addon n subclasses: its import
\* statements load them before its own class statements run
CodeImports(n) ==
    LET ts == TemplatesOf(AddonPackage(n))
        firstBases == {Templates[ts[i]].bases[1] : i \in DOMAIN ts} \ {BaseClass}
        pkgs == {Templates[b].pymod : b \in firstBases}
    IN  SelectSeq(LoadOrder, LAMBDA m : m # n /\ AddonPackage(m) \in pkgs)

\* importlib.import_module('master.addons.' + name): log is sys.modules in
\* execution order; a module already there is not executed again
RECURSIVE ImportLog(_, _)
RECURSIVE ImportLogAll(_, _)
ImportLog(log, name) ==
    IF InSeq(name, log) THEN log
    ELSE Append(ImportLogAll(log, CodeImports(name)), name)

ImportLogAll(log, names) ==
    IF names = <<>> THEN log
    ELSE ImportLogAll(ImportLog(log, Head(names)), Tail(names))

\* attach_order(paths, load_order): result of the loop, or the point where an
\* import raises (the code of hr is broken)
RECURSIVE AttachOrder(_, _, _, _)
AttachOrder(log, found, load_order, e) ==
    IF load_order = <<>> THEN [ok |-> TRUE, log |-> log]
    ELSE LET name == Head(load_order)
         IN  IF name \notin found
             THEN AttachOrder(log, found, Tail(load_order), e)
             ELSE IF name = "hr" /\ e.hr = "broken" /\ ~InSeq(name, log)
             THEN [ok |-> FALSE, log |-> ImportLogAll(log, CodeImports(name))]
             ELSE AttachOrder(ImportLog(log, name), found, Tail(load_order), e)

\* build_controller_class(installed) raises TypeError when the controllers of
\* two installed addons cannot be linearised
BuildControllerFails(app_installed, log, e) ==
    /\ e.hr = "conflict"
    /\ InSeq("hr", app_installed) /\ InSeq("hr", log)
    /\ InSeq("crm", app_installed) /\ InSeq("crm", log)

\* an exception leaves reload() and start_server(): nothing catches it
Crash == mainPc' = "crashed"

\* start_server: server.app.reload() before the first handle_request
Boot ==
    /\ mainPc = "boot"
    /\ mainPc' = "paths"
    /\ UNCHANGED <<env, paths, installed, controller, exports, reload_event,
                   sysModules, lastGood, reloads, req, graphVars, regVars, srvVars>>

\* start_server: "if server.app.reload_event.is_set(): server.app.reload()"
StartReload ==
    /\ mainPc = "serve"
    /\ reload_event
    /\ mainPc' = "paths"
    /\ UNCHANGED <<env, paths, installed, controller, exports, reload_event,
                   sysModules, lastGood, reloads, req, graphVars, regVars, srvVars>>

\* Application.reload: self.paths = modules_paths()
DiscoverPaths ==
    /\ mainPc = "paths"
    /\ IF env.disk = "ok"
       THEN paths' = env.found /\ mainPc' = "select"
       ELSE Crash /\ UNCHANGED paths
    /\ UNCHANGED <<env, installed, controller, exports, reload_event,
                   sysModules, lastGood, reloads, req, graphVars, regVars, srvVars>>

\* Application.reload: self.installed, self.to_update = select_addons(cursor)
SelectAddons ==
    /\ mainPc = "select"
    /\ installed' = env.db
    /\ mainPc' = "attach"
    /\ UNCHANGED <<env, paths, controller, exports, reload_event,
                   sysModules, lastGood, reloads, req, graphVars, regVars, srvVars>>

\* Application.reload: attach_order(self.paths, self.installed)
AttachModules ==
    /\ mainPc = "attach"
    /\ LET r == AttachOrder(sysModules, paths, installed, env)
       IN  /\ sysModules' = r.log
           /\ IF r.ok THEN mainPc' = "build" ELSE Crash
    /\ UNCHANGED <<env, paths, installed, controller, exports, reload_event,
                   lastGood, reloads, req, graphVars, regVars, srvVars>>

\* Application.reload: compiled = build_controller_class(self.installed);
\* self._controller = compiled(converters=..., application=self)
BuildController ==
    /\ mainPc = "build"
    /\ IF BuildControllerFails(installed, sysModules, env)
       THEN Crash /\ UNCHANGED controller
       ELSE controller' = CompiledController(installed) /\ mainPc' = "clear"
    /\ UNCHANGED <<env, paths, installed, exports, reload_event,
                   sysModules, lastGood, reloads, req, graphVars, regVars, srvVars>>

\* Application.reload: self.reload_event.clear()
ClearGate ==
    /\ mainPc = "clear"
    /\ reload_event' = FALSE
    /\ mainPc' = "exports_clear"
    /\ UNCHANGED <<env, paths, installed, controller, exports,
                   sysModules, lastGood, reloads, req, graphVars, regVars, srvVars>>

\* StaticFilesMiddleware.reload: self.exports.clear()
ClearExports ==
    /\ mainPc = "exports_clear"
    /\ exports' = {}
    /\ mainPc' = "exports_fill"
    /\ UNCHANGED <<env, paths, installed, controller, reload_event,
                   sysModules, lastGood, reloads, req, graphVars, regVars, srvVars>>

\* StaticFilesMiddleware.reload: the loop over _iterate_application_exports()
FillExports ==
    /\ mainPc = "exports_fill"
    /\ exports' = paths
    /\ mainPc' = "serve"
    /\ lastGood' = [done |-> TRUE, paths |-> paths, installed |-> installed,
                    controller |-> controller, exports |-> paths]
    /\ UNCHANGED <<env, paths, installed, controller, reload_event,
                   sysModules, reloads, req, graphVars, regVars, srvVars>>

\* somebody changes the addons on disk or in the database and sets reload_event
RaiseGate ==
    \E e \in EnvChoices :
        /\ mainPc \notin {"boot", "crashed"}
        /\ ~reload_event
        /\ reloads < MaxReloads
        /\ env' = e
        /\ reload_event' = TRUE
        /\ reloads' = reloads + 1
        /\ UNCHANGED <<paths, installed, controller, exports, mainPc,
                       sysModules, lastGood, req, graphVars, regVars, srvVars>>

RequestKinds == {"html", "api", "static"}

\* start_server: server.handle_request() accepts a request and starts its thread
AcceptRequest ==
    \E t \in Threads : \E kind \in RequestKinds :
        /\ mainPc = "serve"
        /\ req[t].pc = "idle"
        /\ req' = [req EXCEPT ![t] = [IdleRequest EXCEPT !.pc = "gate", !.kind = kind]]
        /\ UNCHANGED <<env, paths, installed, controller, exports, reload_event,
                       mainPc, sysModules, lastGood, reloads, graphVars, regVars, srvVars>>

\* Application.__call__ up to the call of self.dispatch
CheckGate ==
    \E t \in Threads :
        /\ mainPc # "crashed"
        /\ req[t].pc = "gate"
        /\ req' = [req EXCEPT ![t] =
                     IF @.kind = "static"
                     THEN [@ EXCEPT !.pc = "done", !.response = "404"]
                     ELSE IF reload_event /\ @.kind = "api"
                     THEN [@ EXCEPT !.pc = "done", !.response = "503"]
                     ELSE [@ EXCEPT !.pc = "dispatch", !.error = reload_event]]
        /\ UNCHANGED <<env, paths, installed, controller, exports, reload_event,
                       mainPc, sysModules, lastGood, reloads, graphVars, regVars, srvVars>>

\* Application.dispatch: self._controller.dispatch()
Dispatch ==
    \E t \in Threads :
        /\ mainPc # "crashed"
        /\ req[t].pc = "dispatch"
        /\ req' = [req EXCEPT ![t] = [@ EXCEPT !.pc = "handler",
                                               !.seenController = controller]]
        /\ UNCHANGED <<env, paths, installed, controller, exports, reload_event,
                       mainPc, sysModules, lastGood, reloads, graphVars, regVars, srvVars>>

\* the controller's get_rules: "for installed_module in
\* reversed(request.application.installed)", then the response
HandleRequest ==
    \E t \in Threads :
        /\ mainPc # "crashed"
        /\ req[t].pc = "handler"
        /\ req' = [req EXCEPT ![t] = [@ EXCEPT !.pc = "done",
                                               !.seenInstalled = installed,
                                               !.response = IF req[t].error
                                                            THEN "503 page" ELSE "200"]]
        /\ UNCHANGED <<env, paths, installed, controller, exports, reload_event,
                       mainPc, sysModules, lastGood, reloads, graphVars, regVars, srvVars>>

----------------------------------------------------------------------------
(* The request entry of core/server.py: Server.__call__ enters the context
   manager dispatch_request, calls the response it yields and leaves the
   context manager, which resumes the generator once more. *)

PollAttempts == 60        \* attempt = 60
max_threads_number == 1   \* Server.max_threads_number
MaxCalls == 2             \* request threads in one behaviour

Callers == 1..MaxCalls

NoCall == [pc |-> "idle", attempt |-> 0, yielded |-> <<>>,
           counted |-> FALSE, routed |-> FALSE, outcome |-> "none"]

SrvInit ==
    /\ loading \in BOOLEAN
    /\ requests_count = 0
    /\ calls = [t \in Callers |-> NoCall]

SrvFrozen ==
    /\ loading = FALSE
    /\ requests_count = 0
    /\ calls = [t \in Callers |-> NoCall]

\* Counter.decrease
Decrease(value) == IF value - 1 < 0 THEN 0 ELSE value - 1

\* Counter.check
Check(value, limit) == value > limit

\* Server.__call__: classes.Request(...); with self.dispatch_request(): attempt = 60
EnterDispatch ==
    \E t \in Callers :
        /\ calls[t].pc = "idle"
        /\ calls' = [calls EXCEPT ![t] = [NoCall EXCEPT !.pc = "poll",
                                                           !.attempt = PollAttempts]]
        /\ UNCHANGED <<loading, requests_count, graphVars, regVars, appVars>>

\* dispatch_request: one test of "while self.loading.value and attempt >= 0"
\* and, when it holds, the body: sleep(1); attempt -= 1
Poll ==
    \E t \in Callers :
        /\ calls[t].pc = "poll"
        /\ calls' = [calls EXCEPT ![t] =
                       IF loading /\ calls[t].attempt >= 0
                       THEN [@ EXCEPT !.attempt = @ - 1]
                       ELSE [@ EXCEPT !.pc = "recheck"]]
        /\ UNCHANGED <<loading, requests_count, graphVars, regVars, appVars>>

\* dispatch_request: "if self.loading.value: yield
\* controller.with_exception(ServiceUnavailable())"
Recheck ==
    \E t \in Callers :
        /\ calls[t].pc = "recheck"
        /\ calls' = [calls EXCEPT ![t] =
                       IF loading
                       THEN [@ EXCEPT !.pc = "body", !.yielded = Append(@, "503")]
                       ELSE [@ EXCEPT !.pc = "count"]]
        /\ UNCHANGED <<loading, requests_count, graphVars, regVars, appVars>>

\* Server.__call__: "return response(*args, **kwargs)" inside the with block,
\* then the context manager's __exit__ resumes the generator after its yield
LeaveBody ==
    \E t \in Callers :
        /\ calls[t].pc = "body"
        /\ calls' = [calls EXCEPT ![t] =
                       IF Len(calls[t].yielded) = 1 /\ ~calls[t].counted
                       THEN [@ EXCEPT !.pc = "count"]
                       ELSE [@ EXCEPT !.pc = "finally"]]
        /\ UNCHANGED <<loading, requests_count, graphVars, regVars, appVars>>

\* what adapter.match() does with the request: it returns an endpoint, or
\* raises NotFound, or raises another routing exception (the URL is known but
\* not for the request's method)
RouteOutcomes == {"endpoint", "NotFound", "MethodNotAllowed"}

\* dispatch_request: self.requests_count.increase(), then the check and
\* either the TooManyRequests response or the routing of the request:
\* adapter.match() and controller(values) or NotFound.  Only NotFound is
\* caught around adapter.match(), and the try/finally that decreases the
\* counter starts after it: another routing exception leaves the generator.
CountAndRoute ==
    \E t \in Callers : \E route \in RouteOutcomes :
        /\ calls[t].pc = "count"
        /\ requests_count' = requests_count + 1
        /\ calls' = [calls EXCEPT ![t] =
                       IF Check(requests_count + 1, max_threads_number)
                       THEN [@ EXCEPT !.pc = "body", !.counted = TRUE,
                                      !.yielded = Append(@, "429")]
                       ELSE IF route = "MethodNotAllowed"
                       THEN [@ EXCEPT !.pc = "done", !.counted = TRUE,
                                      !.outcome = "MethodNotAllowed"]
                       ELSE [@ EXCEPT !.pc = "body", !.counted = TRUE,
                                      !.routed = (route = "endpoint"),
                                      !.yielded = Append(@, IF route = "endpoint"
                                                            THEN "200" ELSE "404")]]
        /\ UNCHANGED <<loading, graphVars, regVars, appVars>>

\* the generator's finally: self.requests_count.decrease(); a generator that
\* yielded a second time makes __exit__ raise RuntimeError("generator didn't
\* stop") in place of the response
Finally ==
    \E t \in Callers :
        /\ calls[t].pc = "finally"
        /\ requests_count' = Decrease(requests_count)
        /\ calls' = [calls EXCEPT ![t] =
                       [@ EXCEPT !.pc = "done",
                                 !.outcome = IF Len(calls[t].yielded) > 1
                                             THEN "RuntimeError"
                                             ELSE calls[t].yielded[1]]]
        /\ UNCHANGED <<loading, graphVars, regVars, appVars>>

\* somebody starts or ends a reload: Server.loading.value = b
SetLoading ==
    \E b \in BOOLEAN :
        /\ loading # b
        /\ loading' = b
        /\ UNCHANGED <<requests_count, calls, graphVars, regVars, appVars>>

InitServer == SrvInit /\ GraphFrozen /\ RegFrozen /\ AppFrozen

NextServer ==
    \/ EnterDispatch \/ Poll \/ Recheck \/ LeaveBody \/ CountAndRoute
    \/ Finally \/ SetLoading

SpecServer == InitServer /\ [][NextServer]_vars

\* C14: a request that found the gate still raised after its polling (its
\* first yielded response is the 503) has polled at most PollAttempts + 1
\* times, is neither counted nor routed to an endpoint, and ends with the 503.
C14_GateGives503 ==
    \A t \in Callers :
        (calls[t].yielded # <<>> /\ calls[t].yielded[1] = "503") =>
            /\ calls[t].attempt >= -1
            /\ ~calls[t].counted
            /\ ~calls[t].routed
            /\ calls[t].pc = "done" => calls[t].outcome = "503"

\* C30: the in-flight request counter is balanced: it is never negative and
\* it is 0 whenever no request is in flight, whatever way the requests left
\* dispatch_request.
C30_CounterBalanced ==
    /\ requests_count >= 0
    /\ (\A t \in Callers : calls[t].pc \in {"idle", "done"}) => requests_count = 0

InitApp == AppInit /\ GraphFrozen /\ RegFrozen /\ SrvFrozen

NextApp ==
    \/ Boot \/ StartReload \/ DiscoverPaths \/ SelectAddons \/ AttachModules
    \/ BuildController \/ ClearGate \/ ClearExports \/ FillExports
    \/ RaiseGate \/ AcceptRequest \/ CheckGate \/ Dispatch \/ HandleRequest

SpecApp == InitApp /\ [][NextApp]_vars

InitRegistry == RegInit /\ GraphFrozen /\ AppFrozen /\ SrvFrozen

NextRegistry == ImportCore \/ ImportModule \/ RegisterAgain \/ Compile

SpecRegistry == InitRegistry /\ [][NextRegistry]_vars

\* imports and registrations, with the deduplication functions applied to
\* the candidate lists they produce
NextDedup == ImportCore \/ ImportModule \/ RegisterAgain \/ Deduplicate

SpecDedup == InitRegistry /\ [][NextDedup]_vars

----------------------------------------------------------------------------
(* Properties of the dependency resolver.                                  *)

Loaded == run.status = "ok"

Position(n) == IndexOf(n, run.order)

\* the dependency list a descriptor starts with, unknown names included
DeclaredDepends(n) == ConfigurationDepends(n, decl[n].depends)

\* the non-base modules that n names, directly or through other modules
RECURSIVE DeclaredReach(_, _)
DeclaredReach(frontier, seen) ==
    IF frontier \subseteq seen THEN seen
    ELSE LET n == CHOOSE x \in frontier \ seen : TRUE
         IN  DeclaredReach((frontier \ {n}) \cup (Range(DeclaredDepends(n)) \cap NonBase),
                           seen \cup {n})

DeclaredCycle ==
    \E n \in NonBase :
        n \in DeclaredReach(Range(DeclaredDepends(n)) \cap NonBase, {})

\* C1: after a successful build every module stands strictly after each module
\* it was linked to as a dependant, whatever the enumeration order was.
C1_DependenciesFirst ==
    Loaded =>
        \A n \in Range(run.order) :
            \A d \in Range(run.parents[n]) :
                /\ InSeq(d, run.order)
                /\ Position(d) < Position(n)

\* C2: a declared cycle among non-base modules always ends the build with the
\* circular-dependency error and without any order.
C2_CycleRejected ==
    (run.status # "none" /\ DeclaredCycle) =>
        (run.status = "circular" /\ run.order = <<>>)

\* C3: in every successful build the base module is first and has an empty
\* dependency list.
C3_BaseFirst ==
    Loaded => (run.order[1] = base_addon /\ run.depends[base_addon] = <<>>)

C3_Witness ==
    /\ Loaded
    /\ decl[base_addon].depends # <<>>
    /\ decl["b"].sequence = 10
    /\ Len(run.order) = Cardinality(Discovered)
    /\ run.order[1] = base_addon

\* C4: a module that names an unknown dependency is still in the final order
\* and ends with its declared names minus the unknown ones.
C4_UnknownDropped ==
    Loaded =>
        \A x \in NonBase :
            InSeq(Ghost, decl[x].depends) =>
                /\ InSeq(x, run.order)
                /\ Range(run.depends[x]) = Range(DeclaredDepends(x)) \ {Ghost}

\* C5: the final order lists every discovered module exactly once and nothing else.
C5_TotalOrder ==
    Loaded => (Range(run.order) = Discovered /\ NoDuplicates(run.order))

\* C6: the order of a successful build does not depend on the order in which
\* the descriptors were enumerated.
C6_Deterministic ==
    Loaded =>
        \A other \in EnumerationOrders :
            LET again == BuildResult(decl, other)
            IN  again.status = "ok" => again.order = run.order

\* C18: after construction the dependency list of every non-base descriptor
\* starts with the base module, whatever was declared, and the list of the
\* base descriptor is empty (run.configured holds the lists as constructed).
C18_BaseFirstDependency ==
    run.status # "none" =>
        \A n \in Discovered :
            IF n = base_addon THEN run.configured[n] = <<>>
            ELSE /\ run.configured[n] # <<>>
                 /\ Head(run.configured[n]) = base_addon

\* C19: a constructed dependency list holds no name twice and not the
\* descriptor's own name, so no node has the same parent twice.
C19_DedupedSelfExcluded ==
    run.status # "none" =>
        \A n \in Discovered :
            /\ NoDuplicates(run.configured[n])
            /\ ~InSeq(n, run.configured[n])
            /\ NoDuplicates(run.parents[n])

\* C22: link building handles every entry of every constructed dependency
\* list: an unknown name is recorded as missing and leaves the list, a known
\* name becomes a parent of the module; no entry is passed over.
C22_EveryEntryHandled ==
    run.status # "none" =>
        \A n \in Discovered : \A d \in Range(run.configured[n]) :
            IF d \notin Discovered
            THEN InSeq(d, run.incorrect) /\ ~InSeq(d, run.depends[n])
            ELSE InSeq(d, run.parents[n]) /\ InSeq(n, run.children[d])

\* C23: after link building on an acyclic input the factor of every parent
\* is strictly smaller than the factor of each of its children, whatever the
\* enumeration order was.
C23_ParentFactorSmaller ==
    (Loaded /\ ~DeclaredCycle) =>
        \A n \in Discovered : \A p \in Range(run.parents[n]) :
            run.factor[p] < run.factor[n]

\* the nodes that can be reached from the base node through child links
ReachableFromBase ==
    LET RECURSIVE Grow(_)
        Grow(S) == LET T == S \cup UNION {Range(run.children[n]) : n \in S}
                   IN  IF T = S THEN S ELSE Grow(T)
    IN  Grow({base_addon})

\* (depth factor, weight, parent count, name) of a node after link building
OrderKey(n) ==
    <<run.factor[n], ConfigurationSequence(decl[n].sequence), Len(run.parents[n]),
      NameRank[n]>>

\* u stands before v in the lexicographic order of tuples
LexLess(u, v) ==
    \E i \in DOMAIN u : u[i] < v[i] /\ \A j \in 1..(i - 1) : u[j] = v[j]

\* accounting is module a (weight 16, depends on base only), payroll is
\* module b (weight 10, depends on a)
PayrollScenario ==
    /\ decl["a"].depends \in {<<>>, <<"base">>}
    /\ decl["b"].depends = <<"a">>
    /\ decl["b"].sequence = 10

C25_DependsMatchLinks ==
    Loaded =>
        /\ \A n \in Range(run.order) :
              /\ Range(run.depends[n]) = Range(run.parents[n])
              /\ NoDuplicates(run.depends[n])
              /\ \A i, j \in DOMAIN run.depends[n] :
                     i < j => Position(run.depends[n][i]) < Position(run.depends[n][j])
              /\ Range(run.reversed_depends[n]) = Range(run.children[n])
        /\ \A m, d \in Range(run.order) :
              InSeq(d, run.depends[m]) <=> InSeq(m, run.reversed_depends[d])

InitGraph == GraphInit /\ RegFrozen /\ AppFrozen /\ SrvFrozen

NextGraph == \E enum \in EnumerationOrders : LoadConfigurations(enum) /\ UNCHANGED <<regVars, appVars, srvVars>>

SpecGraph == InitGraph /\ [][NextGraph]_vars

----------------------------------------------------------------------------
(* Properties of the served application. *)

\* a reload after the first one ended in an exception
LiveReloadFailed == lastGood.done /\ mainPc = "crashed"

\* C12: when a live reload fails, the paths, the installed list and the
\* compiled controller are those of the last reload that completed.
C12_FailedReloadKeepsState ==
    LiveReloadFailed =>
        /\ paths = lastGood.paths
        /\ installed = lastGood.installed
        /\ controller = lastGood.controller

\* C13: a request that was dispatched saw a controller and an installed list
\* that belong together: the list it read is the one its controller was
\* compiled from.
C13_NoHalfUpdatedView ==
    \A t \in Threads :
        (req[t].pc = "done" /\ req[t].response \in {"200", "503 page"})
            => req[t].seenInstalled = req[t].seenController.installed

\* C15: once the application is up, paths, installed list, controller and
\* static exports are written only while the gate is raised.
C15_WritesUnderGate ==
    [][ ( /\ lastGood.done
          /\ <<paths, installed, controller, exports>>'
                 # <<paths, installed, controller, exports>> )
        => reload_event ]_vars

\* C17: the addon modules are executed in an order in which every module
\* comes after all of its dependencies.
C17_ImportsFollowDependencies ==
    \A i \in DOMAIN sysModules :
        \A d \in Range(AddonDepends[sysModules[i]]) :
            \E j \in 1..(i - 1) : sysModules[j] = d

----------------------------------------------------------------------------
(* Properties of the class registry and of the compile step.  The ancestor
   order of a compiled class is its method resolution order restricted to
   the classes written in the program (BaseClass and the composites made by
   create_merged_class are left out). *)

AncestorOrder(c) == SelectSeq(ClassMro(classes, c), LAMBDA x : x \in TemplateIds)

SvcMeta == CoreSvc \o <<"UserManager">>

\* the variants module n has registered under meta
VariantsOf(meta, n) ==
    IF meta \in DOMAIN registry THEN Range(registry[meta].module_classes[n]) ELSE {}

\* C7: registering a (class, meta) pair again changes nothing: in every
\* compile pass each class appears at most once among the candidates of a meta.
C7_OneCandidatePerPair ==
    \A p \in DOMAIN passes : \A meta \in DOMAIN passes[p].candidates :
        NoDuplicates(passes[p].candidates[meta])

\* C8: hr depends on crm; when both are installed and each has a variant in
\* the compiled class of a meta, neither a subclass of the other, the variant
\* of hr comes before the variant of crm in the ancestor order.
C8_DependentFirst ==
    \A p \in DOMAIN passes : \A meta \in DOMAIN passes[p].compiled :
        \A D \in Addons : \A B \in Range(AddonDepends[D]) :
            (InSeq(D, passes[p].installed) /\ InSeq(B, passes[p].installed)) =>
                LET order == AncestorOrder(passes[p].compiled[meta])
                IN  \A d \in VariantsOf(meta, D) : \A b \in VariantsOf(meta, B) :
                        ( /\ InSeq(d, order) /\ InSeq(b, order)
                          /\ ~IsSubclass(classes, d, b) /\ ~IsSubclass(classes, b, d) )
                        => IndexOf(d, order) < IndexOf(b, order)

\* C9: svc.UserManager is defined by core (class 1) and overridden by crm
\* (class 3); whenever base and crm are the installed modules the compiled
\* class exists and its ancestor order is exactly [crm variant, core variant].
C9_CrmOverCore ==
    \A p \in DOMAIN passes :
        ( /\ passes[p].installed = <<"base", "crm">>
          /\ SvcMeta \in DOMAIN passes[p].candidates
          /\ {1, 3} \subseteq Range(passes[p].candidates[SvcMeta]) )
        => /\ SvcMeta \in DOMAIN passes[p].compiled
           /\ AncestorOrder(passes[p].compiled[SvcMeta]) = <<3, 1>>

\* C11: a compile pass is all-or-nothing: a pass that publishes a compiled
\* class for some meta has one for every meta that has survivors (distinct
\* survivors that cannot be linearised make the whole pass fail, they never
\* leave a registry that silently lacks their meta).
C11_AllOrNothing ==
    \A p \in DOMAIN passes :
        passes[p].compiled # EmptyMap =>
            \A meta \in DOMAIN passes[p].survivors :
                ( /\ passes[p].survivors[meta] # <<>>
                  /\ NoDuplicates(passes[p].survivors[meta]) )
                => meta \in DOMAIN passes[p].compiled

\* the abstraction id of the class Badge that hr defines on BaseClass
BadgeMeta == AddonPackage("hr") \o <<"Badge">>

\* C21: a meta for which neither an installed module nor core contributes a
\* candidate is skipped with a warning: the pass logs the warning, compiles
\* nothing for it and still compiles every meta that has candidates.
C21_EmptySkippedWithWarning ==
    \A p \in DOMAIN passes : \A meta \in DOMAIN passes[p].candidates :
        passes[p].candidates[meta] = <<>> =>
            /\ meta \notin DOMAIN passes[p].compiled
            /\ InSeq(meta, passes[p].warnings)
            /\ \A other \in DOMAIN passes[p].candidates :
                  passes[p].candidates[other] # <<>> =>
                      other \in DOMAIN passes[p].compiled

\* the class was written in an addon (its bucket is the addon's, not core's)
AddonOwned(c) == ExtractModuleName(classes[c].pymod) # "_"

\* the classes of S in registration order (class ids ascend in creation order)
RECURSIVE RegistrationOrder(_)
RegistrationOrder(S) ==
    IF S = {} THEN <<>>
    ELSE LET m == CHOOSE x \in S : \A y \in S : x <= y
         IN  <<m>> \o RegistrationOrder(S \ {m})

\* the variants of the modules, latest-loaded module first, each module's
\* variants in registration order
RECURSIVE ReverseLoadOrderVariants(_, _)
ReverseLoadOrderVariants(meta, modules) ==
    IF modules = <<>> THEN <<>>
    ELSE RegistrationOrder(VariantsOf(meta, modules[Len(modules)]))
             \o ReverseLoadOrderVariants(meta, SubSeq(modules, 1, Len(modules) - 1))

\* C26: the candidate list of a meta is the variants of the installed modules
\* in reverse load order, each module's variants in registration order,
\* followed by the core-owned variants (checked for the passes after which
\* nothing was imported or registered).
C26_CandidateOrder ==
    \A p \in DOMAIN passes :
        passes[p].epoch = Epoch =>
            \A meta \in DOMAIN passes[p].candidates :
                LET all_classes == passes[p].candidates[meta]
                IN  /\ SelectSeq(all_classes, AddonOwned)
                          = ReverseLoadOrderVariants(meta, passes[p].installed)
                    /\ \A i, j \in DOMAIN all_classes :
                          (AddonOwned(all_classes[j]) /\ ~AddonOwned(all_classes[i]))
                              => j < i

\* c is an ancestor of o and not o itself
StrictAncestor(c, o) == c # o /\ InSeq(c, ClassMro(classes, o))

\* the candidates of class_list that are a strict ancestor of no other candidate
NotSubsumed(class_list) ==
    {c \in Range(class_list) : ~\E o \in Range(class_list) : StrictAncestor(c, o)}

\* result holds exactly the candidates that are not subsumed, in the relative
\* order of class_list
KeptInOrder(class_list, result) ==
    result = SelectSeq(class_list, LAMBDA c : c \in NotSubsumed(class_list))

\* no survivor is an ancestor of another survivor and every dropped candidate
\* is an ancestor of some survivor
SurvivorsCover(class_list, result) ==
    /\ \A a, b \in Range(result) : ~StrictAncestor(a, b)
    /\ \A c \in Range(class_list) \ Range(result) :
           \E survivor \in Range(result) : StrictAncestor(c, survivor)

\* C27: each deduplication function returns exactly the candidates that are
\* not a strict ancestor of another candidate, in the relative order of the
\* candidate list; survivors are unrelated and cover the dropped candidates.
C27_DedupKeepsOrder ==
    /\ KeptInOrder(dedup.class_list, dedup.filter_unique_classes)
    /\ KeptInOrder(dedup.class_list, dedup.filter_class)
    /\ KeptInOrder(dedup.class_list, dedup.deduplicate_classes)
    /\ SurvivorsCover(dedup.class_list, dedup.filter_unique_classes)
    /\ SurvivorsCover(dedup.class_list, dedup.filter_class)
    /\ SurvivorsCover(dedup.class_list, dedup.deduplicate_classes)

\* C27 as the code has it: the survivors are as stated; filter_unique_classes
\* keeps the order of the candidate list, filter_class and
\* Meta.deduplicate_classes return the survivors in the reverse of that order.
C27_DedupSurvivors ==
    /\ KeptInOrder(dedup.class_list, dedup.filter_unique_classes)
    /\ KeptInOrder(dedup.class_list, Reverse(dedup.filter_class))
    /\ KeptInOrder(dedup.class_list, Reverse(dedup.deduplicate_classes))
    /\ SurvivorsCover(dedup.class_list, dedup.filter_unique_classes)
    /\ SurvivorsCover(dedup.class_list, dedup.filter_class)
    /\ SurvivorsCover(dedup.class_list, dedup.deduplicate_classes)

\* a candidate list with a dropped ancestor and several survivors
C27_Witness ==
    /\ Len(dedup.filter_unique_classes) >= 2
    /\ Len(dedup.class_list) > Len(dedup.filter_unique_classes)
    /\ dedup.filter_class # dedup.filter_unique_classes

\* C28: synthesis maps the deduplicated list of a meta to its compiled type:
\* one survivor is used as it is; two or more give a new composite (a class
\* that was no candidate) whose bases are exactly the deduplicated list in
\* the same order.
C28_Synthesis ==
    \A p \in DOMAIN passes : \A meta \in DOMAIN passes[p].survivors :
        LET filtered == passes[p].survivors[meta]
        IN  /\ Len(filtered) = 1 =>
                  /\ meta \in DOMAIN passes[p].compiled
                  /\ passes[p].compiled[meta] = filtered[1]
            /\ Len(filtered) >= 2 =>
                  /\ meta \in DOMAIN passes[p].compiled
                  /\ ~InSeq(passes[p].compiled[meta], passes[p].candidates[meta])
                  /\ classes[passes[p].compiled[meta]].bases = filtered

\* the modules named by the list include the dependencies of each of them
DependencyClosed(modules) ==
    \A n \in Range(modules) : Range(AddonDepends[n]) \subseteq Range(modules)

\* C29: every ancestor of a compiled type that was written in an addon
\* belongs to a module of the installed list the pass was given; the
\* variants of modules that are loaded but not installed stay out.
C29_OnlyInstalledAncestors ==
    \A p \in DOMAIN passes :
        DependencyClosed(passes[p].installed) =>
            \A meta \in DOMAIN passes[p].compiled :
                \A c \in Range(AncestorOrder(passes[p].compiled[meta])) :
                    AddonOwned(c) =>
                        InSeq(ExtractModuleName(classes[c].pymod), passes[p].installed)

\* C20: within every bucket of a meta (one module's classes, or the core-owned
\* classes) the variants stand in the order in which they were registered,
\* first registered first.  Class ids are handed out in creation order and a
\* class registers when it is created, so that order is ascending ids.
C20_RegistrationOrderKept ==
    \A meta \in DOMAIN registry :
        LET Ascending(b) == \A i, j \in DOMAIN b : i < j => b[i] <= b[j]
        IN  /\ Ascending(registry[meta].core_classes)
            /\ \A n \in Addons : Ascending(registry[meta].module_classes[n])

\* number of times class c stands in the list b
Count(c, b) == Cardinality({i \in DOMAIN b : b[i] = c})

\* the buckets of a registry entry: one per addon and the core-owned one
Buckets(entry) ==
    [k \in Addons \cup {"_"} |->
        IF k = "_" THEN entry.core_classes ELSE entry.module_classes[k]]

\* C16: the registry is append-only: over every step each registered class
\* stays in the same bucket of the same meta, and a step that is an import
\* or a compile pass (no explicit register_class call) adds a class at most
\* once and never adds a class that is registered already, also when the
\* module had been imported before.
C16_AppendOnly ==
    [][ /\ \A meta \in DOMAIN registry :
            /\ meta \in DOMAIN registry'
            /\ \A k \in Addons \cup {"_"} :
                  \A c \in Range(Buckets(registry[meta])[k]) :
                      Count(c, Buckets(registry'[meta])[k])
                          >= Count(c, Buckets(registry[meta])[k])
        /\ extraRegs' = extraRegs =>
              \A meta \in DOMAIN registry' : \A k \in Addons \cup {"_"} :
                  \A c \in Range(Buckets(registry'[meta])[k]) :
                      Count(c, Buckets(registry'[meta])[k])
                          = IF meta \in DOMAIN registry
                               /\ c \in Range(Buckets(registry[meta])[k])
                            THEN Count(c, Buckets(registry[meta])[k])
                            ELSE 1
      ]_vars

\* hr is imported (its import requested crm and the core modules again), a
\* compile pass has left a composite behind and crm's variant stands once
C16_Witness ==
    /\ AddonPackage("hr") \in imported
    /\ Len(passes) >= 1
    /\ SvcMeta \in DOMAIN registry
    /\ registry[SvcMeta].module_classes["crm"] = <<3>>
    /\ Len(registry[SvcMeta].core_classes) > 1

\* C10: two consecutive compile passes with the same installed list and no
\* import or registration in between compile the same metas, each to the
\* same ancestor order.
C10_CompileIdempotent ==
    \A p \in DOMAIN passes :
        ( /\ p + 1 \in DOMAIN passes
          /\ passes[p].installed = passes[p + 1].installed
          /\ passes[p].epoch = passes[p + 1].epoch )
        => /\ DOMAIN passes[p].compiled = DOMAIN passes[p + 1].compiled
           /\ \A meta \in DOMAIN passes[p].compiled :
                  AncestorOrder(passes[p].compiled[meta])
                      = AncestorOrder(passes[p + 1].compiled[meta])

====
